---- MODULE Spec2Model ----
(***************************************************************************)
(* Model of src/src/classes.py: the per-patient competing-risk sampling    *)
(* (Patient), its aggregation (DiscreteEventSimulation) and the simulated  *)
(* annealing calibration loop (step, simulated_annealing).                 *)
(*                                                                         *)
(* Two specifications share the module.  Spec drives                       *)
(* DiscreteEventSimulation.run over a cohort; SpecSA drives                *)
(* simulated_annealing.  Probabilities of the cohort part live on a grid   *)
(* of 1/Unit; arrays and temperatures of the annealing part are fixed      *)
(* point numbers in thousandths.                                           *)
(***************************************************************************)
EXTENDS Integers, Sequences, FiniteSets, TLC

VARIABLES
    \* ---- DiscreteEventSimulation / Patient ----
    condCDF,        \* c.condCDF, the all-cause mortality table (grid units)
    history,        \* pid -> Patient.history (a dict: key -> age)
    log,            \* DiscreteEventSimulation.log
    acMortArr,      \* DiscreteEventSimulation.acMortArr
    cancerIncArr,   \* DiscreteEventSimulation.cancerIncArr (rationals)
    pdf,            \* the cancer_pdf argument of the run in progress
    k,              \* position of the for loop of run: next patient
    status,         \* "idle", "running", "returned", "IndexError"
    frame,          \* locals of the latest Patient.run call
    everCancer,     \* history variable: pids that recorded 'Cancer' in some run
    \* ---- simulated_annealing ----
    heap,           \* address -> numpy array (fixed point, thousandths)
    cancer_pdf,     \* the caller's array (address)
    best,           \* addresses; 0 = not bound yet
    curr,
    candidate,
    scratch,        \* the np.copy(curr) handed to step
    best_eval,
    curr_eval,
    candidate_eval,
    i,              \* loop counter
    n_iterations,
    start_temp,     \* thousandths
    verbose,
    spc,            \* "off", "called", "loop", "returned"
    last,           \* the acceptance test of the latest iteration
    printed,        \* what print() wrote
    evals           \* history variable: every evaluated point with its score

desVars == <<condCDF, history, log, acMortArr, cancerIncArr, pdf, k, status,
             frame, everCancer>>
saVars == <<heap, cancer_pdf, best, curr, candidate, scratch, best_eval,
            curr_eval, candidate_eval, i, n_iterations, start_temp, verbose,
            spc, last, printed, evals>>
vars == <<desVars, saVars>>

(***************************************************************************)
(* Bounds and configuration                                                *)
(***************************************************************************)
NumPatients == 2      \* c.NUM_PATIENTS
NumAges == 2          \* c.END_AGE - c.START_AGE + 1
Unit == 4             \* the probability 1.0 on the grid; draws are 0..Unit-1
START_AGE == 1        \* c.START_AGE (patients start at the default age)
Per100k == 100000

Pids == 1..NumPatients
Offsets == 0..(NumAges - 1)
Draws == 0..(Unit - 1)           \* np.random.rand() is in [0, 1)

Min(S) == CHOOSE x \in S : \A y \in S : x <= y

RECURSIVE SumTo(_, _)
SumTo(a, n) == IF n = 0 THEN 0 ELSE SumTo(a, n - 1) + a[n]

Sum(a) == SumTo(a, Len(a))

\* np.cumsum
CumSum(a) == [j \in 1..Len(a) |-> SumTo(a, j)]

\* np.searchsorted(a, v), side='left': the 0-based index of the first entry
\* >= v, len(a) when there is none (a is sorted).
SearchSorted(a, v) ==
    LET S == {j \in 1..Len(a) : a[j] >= v}
    IN  IF S = {} THEN Len(a) ELSE Min(S) - 1

NonDecreasing(a) == \A j \in 1..(Len(a) - 1) : a[j] <= a[j + 1]

\* Tables that meet the documented contract of condCDF (floats in [0,1],
\* non-decreasing, one entry per age offset), over the values 0, 1/Unit, 1.
CondCDFs == {a \in [1..NumAges -> {0, 1, Unit}] : NonDecreasing(a)}

\* Candidate distributions handed to run: constant arrays and an array with
\* all its mass in the last bin.
Pdfs == {[j \in 1..NumAges |-> v] : v \in {0, 1, Unit}}
        \cup {[j \in 1..NumAges |-> IF j = NumAges THEN Unit ELSE 0]}

Zeros == [j \in 1..NumAges |-> 0]

\* A rational num/den (den > 0): the float entries of cancerIncArr.
Rat(n, d) == [num |-> n, den |-> d]

RatEq(x, y) == x.num * y.den = y.num * x.den

RatZeros == [j \in 1..NumAges |-> Rat(0, 1)]

(***************************************************************************)
(* Patient                                                                 *)
(***************************************************************************)
PatientResetKeep(h) == ("Healthy" :> START_AGE) @@ h

\* Patient.reset (and the constructor): history = {'Healthy': self.age}
PatientReset(h) == ("Healthy" :> START_AGE)

CancerOffByOne(cancer_age, ac_age) == cancer_age <= ac_age + 1

\* line 45: if cancer_age <= ac_age
CancerBeforeDeath(cancer_age, ac_age) == cancer_age <= ac_age

\* The two sampled ages of Patient.run, from the two draws.
AcAge(r) == SearchSorted(condCDF, r) + START_AGE

CancerAge(p, r) == SearchSorted(CumSum(p), r) + START_AGE

\* Patient.run: the history it leaves and returns.
PatientRun(h, p, r1, r2) ==
    LET h0 == PatientReset(h)
        ac == AcAge(r1)
        ca == CancerAge(p, r2)
        h1 == IF CancerBeforeDeath(ca, ac) THEN ("Cancer" :> ca) @@ h0 ELSE h0
    IN  ("Other Death" :> ac) @@ h1

(***************************************************************************)
(* DiscreteEventSimulation                                                 *)
(***************************************************************************)
InRange(off) == off \in Offsets

\* run, line 75: self.reset()
DesRunBegin ==
    /\ status # "running"
    /\ status # "off"
    /\ \E p \in Pdfs : pdf' = p
    /\ log' = <<>>
    /\ cancerIncArr' = RatZeros
    /\ acMortArr' = Zeros
    /\ k' = 1
    /\ status' = "running"
    /\ UNCHANGED <<condCDF, history, frame, everCancer>>

\* run, lines 76-83: one pass of the loop.  An index outside the arrays
\* raises IndexError, which leaves run.
DesRunPatient ==
    /\ status = "running"
    /\ k <= NumPatients
    /\ \E r1 \in Draws, r2 \in Draws :
        \E h \in {PatientRun(history[k], pdf, r1, r2)} :
        \E dOff \in {h["Other Death"] - START_AGE} :
        \E hasC \in {"Cancer" \in DOMAIN h} :
        \E cOff \in {IF hasC THEN h["Cancer"] - START_AGE ELSE 0} :
            /\ history' = [history EXCEPT ![k] = h]
            /\ frame' = [pid |-> k, ac_age |-> AcAge(r1),
                         cancer_age |-> CancerAge(pdf, r2)]
            /\ everCancer' = IF hasC THEN everCancer \cup {k} ELSE everCancer
            /\ log' = Append(log, h)
            \* line 79
            /\ acMortArr' = IF InRange(dOff)
                            THEN [acMortArr EXCEPT ![dOff + 1] = @ + 1]
                            ELSE acMortArr
            \* lines 80-83
            /\ cancerIncArr' =
                 IF InRange(dOff) /\ hasC /\ InRange(cOff)
                 THEN [cancerIncArr EXCEPT
                         ![cOff + 1] = Rat(@.num + 1, @.den)]
                 ELSE cancerIncArr
            /\ status' = IF InRange(dOff) /\ (hasC => InRange(cOff))
                         THEN "running" ELSE "IndexError"
    /\ k' = k + 1
    /\ UNCHANGED <<condCDF, pdf>>

\* run, lines 84-86
DesRunEnd ==
    /\ status = "running"
    /\ k > NumPatients
    /\ LET cum == CumSum(acMortArr)
           num_alive == [j \in 1..NumAges |-> NumPatients - cum[j]]
       IN  cancerIncArr' =
             [j \in 1..NumAges |->
                Rat(Per100k * cancerIncArr[j].num,
                    cancerIncArr[j].den * (num_alive[j] + 1))]
    /\ status' = "returned"
    /\ UNCHANGED <<condCDF, history, log, acMortArr, pdf, k, frame, everCancer>>

DesInit ==
    /\ condCDF \in CondCDFs
    /\ history = [p \in Pids |-> PatientReset(<<>>)]
    /\ log = <<>>
    /\ acMortArr = Zeros
    /\ cancerIncArr = RatZeros
    /\ pdf = Zeros
    /\ k = 1
    /\ status = "idle"
    /\ frame = [pid |-> 0, ac_age |-> 0, cancer_age |-> 0]
    /\ everCancer = {}

\* The annealing variables while only the cohort is driven.
SAOff ==
    /\ heap = <<>>
    /\ cancer_pdf = 0 /\ best = 0 /\ curr = 0 /\ candidate = 0 /\ scratch = 0
    /\ best_eval = 0 /\ curr_eval = 0 /\ candidate_eval = 0
    /\ i = 0 /\ n_iterations = 0 /\ start_temp = 0 /\ verbose = FALSE
    /\ spc = "off"
    /\ last = [valid |-> FALSE]
    /\ printed = <<>>
    /\ evals = <<>>

Init == DesInit /\ SAOff

Next ==
    \/ DesRunBegin /\ UNCHANGED saVars
    \/ DesRunPatient /\ UNCHANGED saVars
    \/ DesRunEnd /\ UNCHANGED saVars

Spec == Init /\ [][Next]_vars

(***************************************************************************)
(* Floating point of the annealing part: fixed point numbers in            *)
(* thousandths, and the values inf, -inf and nan that numpy's float64      *)
(* division and exp return (with a warning, never an exception).           *)
(***************************************************************************)
Milli == 10 * 10 * 10

Fin(x) == [kind |-> "fin", v |-> x]
NaN == [kind |-> "nan", v |-> 0]
PInf == [kind |-> "inf", v |-> 0]
NInf == [kind |-> "-inf", v |-> 0]

Abs(x) == IF x < 0 THEN -x ELSE x

\* Division rounding toward zero, b # 0.
TruncDiv(a, b) ==
    LET q == Abs(a) \div Abs(b)
    IN  IF (a < 0) # (b < 0) THEN -q ELSE q

\* a / b on float64 (a, b finite, in thousandths): x/0 is +-inf, 0/0 is nan.
FloatDiv(a, b) ==
    IF b = 0
    THEN IF a = 0 THEN NaN ELSE IF a > 0 THEN PInf ELSE NInf
    ELSE Fin(TruncDiv(a * Milli, b))

\* np.log(n) in thousandths, n = 1, 2, ...
LnTable == <<0, 693, 1099, 1386, 1609, 1792, 1946, 2079>>

LnMilli(n) == LnTable[n]

\* exp(-y) for 0 <= y <= 1: the Taylor series in Horner form, from term n on.
RECURSIVE ExpSeries(_, _)
ExpSeries(y, n) ==
    IF n > 10 THEN Milli
    ELSE Milli - (y * ExpSeries(y, n + 1)) \div (n * Milli)

\* exp(-y), y >= 0, halving the argument down to [0, 1].
RECURSIVE ExpNeg(_)
ExpNeg(y) ==
    IF y <= Milli THEN ExpSeries(y, 1)
    ELSE (ExpNeg(y \div 2) * ExpNeg(y - (y \div 2))) \div Milli

\* np.exp on a float.  A positive argument gives 1/exp(-x), saturating where
\* exp(-x) is below the resolution.
Exp(x) ==
    CASE x.kind = "nan" -> NaN
      [] x.kind = "inf" -> PInf
      [] x.kind = "-inf" -> Fin(0)
      [] OTHER ->
           IF x.v <= 0 THEN Fin(ExpNeg(-x.v))
           ELSE LET e == ExpNeg(x.v)
                IN  IF e = 0 THEN Fin(Milli * Milli * Milli)
                    ELSE Fin((Milli * Milli) \div e)

\* u < m for a finite u and a float m: any comparison with nan is False.
LessThan(u, m) ==
    CASE m.kind = "nan" -> FALSE
      [] m.kind = "inf" -> TRUE
      [] m.kind = "-inf" -> FALSE
      [] OTHER -> u < m.v

(***************************************************************************)
(* step                                                                    *)
(***************************************************************************)
WindowLength == 10    \* savgol_filter(candidate, 10, 3, mode='interp')
STEP_SIZE == 200      \* c.STEP_SIZE, thousandths
MASK_SIZE == 500      \* c.MASK_SIZE, thousandths

Idx == 1..WindowLength

\* savgol_filter with window 10, order 3, mode 'interp' on an array of 10
\* entries: both edge fits cover the whole array, so every output is the
\* least-squares cubic through the 10 points, evaluated at its own index.
\* SavgolNum / SavgolDen is that projection.
SavgolDen == 4290

SavgolNum ==
    << <<3534, 1344, 84, -456, -486, -216, 144, 384, 294, -336>>,
       <<1344, 1294, 1064, 724, 344, -6, -256, -336, -176, 294>>,
       <<84, 1064, 1399, 1264, 834, 284, -211, -476, -336, 384>>,
       <<-456, 724, 1264, 1319, 1044, 594, 124, -211, -256, 144>>,
       <<-486, 344, 834, 1044, 1034, 864, 594, 284, -6, -216>>,
       <<-216, -6, 284, 594, 864, 1034, 1044, 834, 344, -486>>,
       <<144, -256, -211, 124, 594, 1044, 1319, 1264, 724, -456>>,
       <<384, -336, -476, -211, 284, 834, 1264, 1399, 1064, 84>>,
       <<294, -176, -336, -256, -6, 344, 724, 1064, 1294, 1344>>,
       <<-336, 294, 384, 144, -216, -486, -456, 84, 1344, 3534>> >>

RECURSIVE Dot(_, _, _)
Dot(a, b, n) == IF n = 0 THEN 0 ELSE Dot(a, b, n - 1) + a[n] * b[n]

SavgolFilter(x) ==
    [j \in Idx |-> TruncDiv(Dot(SavgolNum[j], x, WindowLength), SavgolDen)]

\* np.clip(x, 0.0, 1.0)
Clip(x) == [j \in Idx |-> IF x[j] < 0 THEN 0 ELSE IF x[j] > Milli THEN Milli ELSE x[j]]

\* lines 121-122: mask = random(shape) > mask_size; candidate[mask] += noise
\* (r: the per-element draws of the mask, d: the per-element noise)
Perturb(x, r, d) == [j \in Idx |-> IF r[j] > MASK_SIZE THEN x[j] + d[j] ELSE x[j]]

\* The draws of one call of step that the model enumerates: nothing
\* selected, the first half selected, everything selected; the noise at
\* either end of [-step_size, step_size].
MaskRands == {[j \in Idx |-> 0],
              [j \in Idx |-> IF 2 * j <= WindowLength THEN Milli - 1 ELSE 0]}

Noises == {[j \in Idx |-> STEP_SIZE], [j \in Idx |-> -STEP_SIZE]}

(***************************************************************************)
(* simulated_annealing                                                     *)
(***************************************************************************)
MaxIter == 2          \* largest n_iterations
MaxScore == 2         \* objective values are 0..MaxScore (whole units)

\* objective(des.run(x).cancerIncArr, cancer_inc), lines 142 and 146: the
\* score of a point is decided by the draws of the cohort run and by the
\* reference curve, so every evaluation draws its score from Scores.
Scores == {n * Milli : n \in 0..MaxScore}
StartTemps == {-Milli, 0, Milli}
UDraws == {0, Milli - 1}         \* np.random.random() is in [0, 1)

\* The array the caller passes as cancer_pdf.
InitialPdf == [j \in Idx |-> 100 * (j - 1)]

NpCopyAlias(src, fresh) == src

\* np.copy(src): the address of the copy, a fresh one.
NpCopy(src, fresh) == fresh

\* The heap with array arr stored at address a (a fresh address extends it).
Store(h, a, arr) ==
    IF a = Len(h) + 1 THEN Append(h, arr) ELSE [h EXCEPT ![a] = arr]

BestImprovesOrTies(candidate_ev, best_ev) == candidate_ev <= best_ev

BestImprovesOnCurr(candidate_ev, best_ev) == candidate_ev < curr_eval

\* line 148: if candidate_eval < best_eval
BestImproves(candidate_ev, best_ev) == candidate_ev < best_ev

\* line 147: t = start_temp / (1 + np.log(i + 1))
Temperature(it) == TruncDiv(start_temp * Milli, Milli + LnMilli(it + 1))

\* line 153: metropolis = np.exp(-diff / t)
Metropolis(diff, t) == Exp(FloatDiv(-diff, t))

AcceptsGreedy(diff, u, metropolis) == diff < 0

\* line 154: if diff < 0 or np.random.random() < metropolis
Accepts(diff, u, metropolis) == diff < 0 \/ LessThan(u, metropolis)

\* lines 141-143
SABegin ==
    /\ spc = "called"
    /\ \E a \in {NpCopy(cancer_pdf, Len(heap) + 1)} :
       \E s \in Scores :
         /\ heap' = Store(heap, a, heap[cancer_pdf])
         /\ best' = a
         /\ best_eval' = s
         /\ curr' = a
         /\ curr_eval' = s
         /\ evals' = <<[ref |-> a, arr |-> heap[cancer_pdf], score |-> s]>>
    /\ i' = 0
    /\ spc' = "loop"
    /\ UNCHANGED <<cancer_pdf, candidate, scratch, candidate_eval,
                   n_iterations, start_temp, verbose, last, printed>>

\* lines 145-155: one pass of the loop
SAIter ==
    /\ spc = "loop"
    /\ i < n_iterations
    /\ \E r \in MaskRands, d \in Noises :
       \* line 145: np.copy(curr), then step on the copy: it changes its
       \* argument in place (lines 121-122) and returns a new array
       \* (lines 123-124)
       \E sc \in {NpCopy(curr, Len(heap) + 1)} :
       \E h1 \in {Store(heap, sc, heap[curr])} :
       \E h2 \in {[h1 EXCEPT ![sc] = Perturb(@, r, d)]} :
       \E cand \in {Len(h2) + 1} :
       \E arr \in {Clip(SavgolFilter(h2[sc]))} :
       \* line 146: the score of the candidate; line 154: the acceptance draw
       \E s \in Scores, u \in UDraws :
       \E t \in {Temperature(i)} :
       \E improves \in {BestImproves(s, best_eval)} :
       \E diff \in {s - curr_eval} :
       \E metropolis \in {Metropolis(diff, t)} :
       \E acc \in {Accepts(diff, u, metropolis)} :
         /\ heap' = Append(h2, arr)
         /\ scratch' = sc
         /\ candidate' = cand
         /\ candidate_eval' = s
         /\ evals' = Append(evals, [ref |-> cand, arr |-> arr, score |-> s])
         /\ best' = IF improves THEN cand ELSE best
         /\ best_eval' = IF improves THEN s ELSE best_eval
         /\ printed' = IF verbose /\ i % 100 = 0
                       THEN Append(printed, [iteration |-> i, score |-> best_eval'])
                       ELSE printed
         /\ curr' = IF acc THEN cand ELSE curr
         /\ curr_eval' = IF acc THEN s ELSE curr_eval
         /\ last' = [valid |-> TRUE, diff |-> diff, t |-> t,
                     metropolis |-> metropolis, u |-> u, accepted |-> acc]
    /\ i' = i + 1
    /\ UNCHANGED <<cancer_pdf, n_iterations, start_temp, verbose, spc>>

\* lines 156-157: print(best_eval); return best
SAReturn ==
    /\ spc = "loop"
    /\ i >= n_iterations
    /\ printed' = Append(printed, [score |-> best_eval])
    /\ spc' = "returned"
    /\ UNCHANGED <<heap, cancer_pdf, best, curr, candidate, scratch, best_eval,
                   curr_eval, candidate_eval, i, n_iterations, start_temp,
                   verbose, last, evals>>

\* The call simulated_annealing(des, cancer_pdf, cancer_inc, n_iterations,
\* start_temp, step_size, mask_size, verbose) on entry.
SACalled ==
    /\ heap = <<InitialPdf>>
    /\ cancer_pdf = 1
    /\ best = 0 /\ curr = 0 /\ candidate = 0 /\ scratch = 0
    /\ best_eval = 0 /\ curr_eval = 0 /\ candidate_eval = 0
    /\ i = 0
    /\ n_iterations \in 0..MaxIter
    /\ start_temp \in StartTemps
    /\ verbose \in BOOLEAN
    /\ spc = "called"
    /\ last = [valid |-> FALSE]
    /\ printed = <<>>
    /\ evals = <<>>

\* The cohort variables while only the annealing loop is driven.
DesOff ==
    /\ condCDF = Zeros
    /\ history = [p \in Pids |-> PatientReset(<<>>)]
    /\ log = <<>>
    /\ acMortArr = Zeros
    /\ cancerIncArr = RatZeros
    /\ pdf = Zeros
    /\ k = 1
    /\ status = "off"
    /\ frame = [pid |-> 0, ac_age |-> 0, cancer_age |-> 0]
    /\ everCancer = {}

InitSA == DesOff /\ SACalled

NextSA ==
    \/ SABegin /\ UNCHANGED desVars
    \/ SAIter /\ UNCHANGED desVars
    \/ SAReturn /\ UNCHANGED desVars

SpecSA == InitSA /\ [][NextSA]_vars

(***************************************************************************)
(* Claims about Patient and DiscreteEventSimulation (checked under Spec)   *)
(***************************************************************************)
HasCancer(h) == "Cancer" \in DOMAIN h

\* What the log of the run says: cancers recorded at offset a, deaths at
\* offsets below a.
IncCount(a) ==
    Cardinality({n \in 1..Len(log) :
                   HasCancer(log[n]) /\ log[n]["Cancer"] - START_AGE = a})

DeathsBefore(a) ==
    Cardinality({n \in 1..Len(log) : log[n]["Other Death"] - START_AGE < a})

DeathsUpTo(a) ==
    Cardinality({n \in 1..Len(log) : log[n]["Other Death"] - START_AGE <= a})

\* What a run that returns leaves: one death per patient, at most one
\* incidence increment per patient.
RunAggregates ==
    status = "returned" =>
      /\ Sum(acMortArr) = NumPatients
      /\ Len(log) = NumPatients
      /\ Cardinality({n \in 1..Len(log) : HasCancer(log[n])}) <= NumPatients

\* What run computes (lines 84-85): the denominator of bin a is population
\* minus the deaths at offsets up to and including a, plus 1.
RateAsComputed ==
    status = "returned" =>
      \A a \in Offsets :
        RatEq(cancerIncArr[a + 1],
              Rat(Per100k * IncCount(a), NumPatients - DeathsUpTo(a) + 1))

\* C1: after every call of Patient.run the history of that patient holds
\* 'Healthy' and 'Other Death', and holds 'Cancer' exactly when the onset age
\* sampled in this call is <= the death age sampled in this call; every
\* patient's history holds 'Healthy' at all times.
C1_HistoryKeys ==
    /\ \A p \in Pids : "Healthy" \in DOMAIN history[p]
    /\ frame.pid # 0 =>
         LET h == history[frame.pid]
         IN  /\ "Other Death" \in DOMAIN h
             /\ h["Other Death"] = frame.ac_age
             /\ HasCancer(h) <=> frame.cancer_age <= frame.ac_age
             /\ HasCancer(h) => h["Cancer"] = frame.cancer_age

\* C1 witness: a patient that recorded 'Cancer' in an earlier run has just
\* been run again and has no 'Cancer' entry.
C1_Witness ==
    /\ frame.pid # 0
    /\ frame.pid \in everCancer
    /\ ~HasCancer(history[frame.pid])
    /\ frame.cancer_age > frame.ac_age

\* C2 (as claimed): every run over a condCDF that meets the documented
\* contract completes, with sum(acMortArr) = population and at most
\* population incidence increments.
C2_RunCompletes ==
    /\ status # "IndexError"
    /\ status = "returned" =>
         /\ Sum(acMortArr) = NumPatients
         /\ Cardinality({n \in 1..Len(log) : HasCancer(log[n])}) <= NumPatients

\* C3 (as claimed): after run, cancerIncArr[a] =
\* 100000 * incidenceCount[a] / (alive + 1) with alive = population minus the
\* deaths at offsets strictly below a.
C3_RateExclusive ==
    status = "returned" =>
      \A a \in Offsets :
        RatEq(cancerIncArr[a + 1],
              Rat(Per100k * IncCount(a), NumPatients - DeathsBefore(a) + 1))

\* C6 (as claimed): with condCDF all 1.0 and a pdf all 0.0, whatever the
\* draws, every death is at offset 0, no patient records 'Cancer' and the
\* incidence is 0 at every offset.
C6_NoCancerScenario ==
    (/\ status = "returned"
     /\ \A j \in 1..NumAges : condCDF[j] = Unit
     /\ pdf = Zeros) =>
      /\ acMortArr = [j \in 1..NumAges |-> IF j = 1 THEN NumPatients ELSE 0]
      /\ \A n \in 1..Len(log) : ~HasCancer(log[n])
      /\ \A a \in Offsets : IncCount(a) = 0 /\ cancerIncArr[a + 1].num = 0

\* C10: when the last entry of condCDF is 1.0, every recorded 'Cancer' age is
\* <= the same patient's 'Other Death' age, every recorded age is at an
\* offset in [0, NumAges-1], and no run ends in IndexError.
C10_IndexInRange ==
    condCDF[NumAges] = Unit =>
      /\ status # "IndexError"
      /\ \A n \in 1..Len(log) :
           /\ InRange(log[n]["Other Death"] - START_AGE)
           /\ HasCancer(log[n]) =>
                /\ log[n]["Cancer"] <= log[n]["Other Death"]
                /\ InRange(log[n]["Cancer"] - START_AGE)

\* C10 witness: a run returned in which the onset draw fell past the whole
\* cumulative pdf (insertion point NumAges, an onset age past END_AGE).
C10_Witness ==
    /\ condCDF[NumAges] = Unit
    /\ status = "returned"
    /\ frame.cancer_age - START_AGE = NumAges
    /\ ~HasCancer(history[frame.pid])

(***************************************************************************)
(* Claims about simulated_annealing (checked under SpecSA)                 *)
(***************************************************************************)
MinScore == Min({evals[n].score : n \in 1..Len(evals)})

\* The earliest evaluation whose score is the minimum of all evaluations.
EarliestMin == Min({n \in 1..Len(evals) : evals[n].score = MinScore})

\* C4: with start_temp > 0, a candidate whose score equals the current score
\* (diff = 0) is accepted whatever the acceptance draw, the Metropolis factor
\* being 1; a candidate with diff < 0 is accepted too.  Accepted means that
\* curr and curr_eval are the candidate and its score.
C4_TieAccepted ==
    (start_temp > 0 /\ last.valid /\ last.diff <= 0) =>
      /\ last.accepted
      /\ curr = candidate
      /\ curr_eval = candidate_eval
      /\ last.diff = 0 => last.metropolis = Fin(Milli)

\* C4 witness: a tie was accepted on the largest acceptance draw.
C4_Witness ==
    /\ start_temp > 0
    /\ last.valid
    /\ last.diff = 0
    /\ last.u = Milli - 1
    /\ last.accepted
    /\ curr = candidate

\* C5: the call returns the earliest evaluated point whose score is the
\* minimum over all evaluations made, and reports that score; with
\* n_iterations = 0 it returns a copy equal to cancer_pdf with the score of the
\* single upfront evaluation.
C5_ReturnsEarliestMin ==
    spc = "returned" =>
      /\ Len(evals) = n_iterations + 1
      /\ best = evals[EarliestMin].ref
      /\ heap[best] = evals[EarliestMin].arr
      /\ best_eval = MinScore
      /\ printed[Len(printed)] = [score |-> MinScore]
      /\ n_iterations = 0 =>
           /\ heap[best] = heap[cancer_pdf]
           /\ heap[best] = InitialPdf
           /\ best # cancer_pdf
           /\ best_eval = evals[1].score

\* C5 witness: the minimum was first reached by the first candidate and
\* reached again by the second; the call returned.
C5_Witness ==
    /\ spc = "returned"
    /\ Len(evals) >= 3
    /\ EarliestMin = 2
    /\ evals[3].score = evals[2].score
    /\ best = evals[2].ref

\* C7 (as claimed): a call with start_temp <= 0 and n_iterations >= 1 never
\* returns normally and never runs the acceptance test on a temperature that
\* is zero or negative.
C7_NonPositiveTempFails ==
    (start_temp <= 0 /\ n_iterations >= 1) =>
      /\ spc # "returned"
      /\ ~last.valid

\* C8: no step modifies in place the caller's array or the arrays that best
\* and curr refer to; step is handed a fresh copy; best is rebound only to a
\* candidate of strictly lower score and curr only to an accepted candidate.
C8_CopyDiscipline ==
    [][/\ \A a \in {cancer_pdf, best, curr} \ {0} :
            a <= Len(heap') /\ heap'[a] = heap[a]
       /\ cancer_pdf' = cancer_pdf
       /\ i' # i => scratch' > Len(heap)
       /\ (best # 0 /\ best' # best) =>
            /\ best' = candidate'
            /\ best' > Len(heap)
            /\ candidate_eval' < best_eval
            /\ best_eval' = candidate_eval'
       /\ (best # 0 /\ best' = best) => best_eval' = best_eval
       /\ (curr # 0 /\ curr' # curr) =>
            /\ curr' = candidate'
            /\ last'.accepted
            /\ curr_eval' = candidate_eval'
       /\ (curr # 0 /\ curr' = curr) => curr_eval' = curr_eval
      ]_vars

\* C8 witness: after the first pass best and curr still alias the copy made
\* at initialization, which equals the caller's array, while the copy handed
\* to step was changed in place.
C8_Witness ==
    /\ spc = "loop"
    /\ i = 1
    /\ best = curr
    /\ best # cancer_pdf
    /\ heap[best] = heap[cancer_pdf]
    /\ scratch # best
    /\ heap[scratch] # heap[best]

\* C9: after initialization and after every pass best_eval <= curr_eval, and
\* best_eval never increases.
C9_BestNeverWorse ==
    [][/\ spc' # "called" => best_eval' <= curr_eval'
       /\ spc # "called" => best_eval' <= best_eval
      ]_vars

\* C9 witness: a worse candidate was accepted as curr and best kept its lower
\* score.
C9_Witness ==
    /\ spc = "loop"
    /\ start_temp > 0
    /\ last.valid
    /\ last.diff > 0
    /\ last.accepted
    /\ best_eval < curr_eval
    /\ best # curr

====
